---- MODULE Spec2Model ----
(***************************************************************************)
(* Model of the study tracker page (src/app/page.tsx, StudyTracker) and of *)
(* the Firestore adapter it calls (src/unnamed/part_000, the second        *)
(* FirestoreService, the one that has saveDailyProgressForDate).           *)
(*                                                                         *)
(* One signed-in user.  The React component state is the in-memory state;  *)
(* every await of an adapter call is a suspension point, so a load is a    *)
(* small process with a program counter and every write is a message in    *)
(* flight that the store applies (or fails) at some later moment, in any   *)
(* order.  The handlers are reachable only through the rendered controls:  *)
(* the loading screen hides them while dataLoading is set and the minus    *)
(* buttons are disabled at 0.                                              *)
(*                                                                         *)
(* The dependency list of the save effect (page.tsx:160) names `loading`,  *)
(* an identifier StudyTracker does not declare; the effect is modelled as  *)
(* re-running when currentUser, subjectProgress or totalTarget change.     *)
(* Display-only fields of a subject (icon, color) are left out.            *)
(*                                                                         *)
(* Spec is one page instance; SpecLive adds the fairness of its loads;     *)
(* SpecFn runs the pure functions on their own; SpecSessions runs the      *)
(* catalog part of the page on several devices over one shared document.   *)
(***************************************************************************)
EXTENDS Integers, Sequences, FiniteSets, TLC

\* ------------------------------------------------------------------ bounds
MaxMutations == 2
MaxSwitches == 2
MaxTargetEdits == 1
MaxFailures == 1
MaxInFlight == 2
MaxDate == 2
MaxIdx == 1
MaxSaves == 2
MaxEvents == 4
MaxSessions == 2
FnMaxCount == 1
FnMaxSteps == 4
FnMaxHistory == 3

\* --------------------------------------------------------------- constants
HistoryLimit == 7

NoUser == "none"
UserId == "u1"
Dates == 1..MaxDate
Today == 1
Fields == {"correct", "wrong", "empty"}

\* Instants are counted in half hours: a Date holds the calendar day and the time of day.
TicksPerDay == 48

Max(a, b) == IF a >= b THEN a ELSE b
Min(a, b) == IF a <= b THEN a ELSE b

RECURSIVE SumSeq(_)
SumSeq(s) == IF s = <<>> THEN 0 ELSE Head(s) + SumSeq(Tail(s))

\* ------------------------------------------------------------------- state
VARIABLES
  currentUser,      \* useAuth().currentUser
  authLoading,      \* useAuth().loading
  selectedDate,     \* useState selectedDate
  subjectProgress,  \* useState subjectProgress: the snapshot
  totalQuestions,   \* useState totalQuestions
  totalTarget,      \* useState totalTarget
  dataLoading,      \* useState dataLoading
  saveLoading,      \* useState saveLoading
  dailyHistory,     \* useState dailyHistory
  timer,            \* the pending setTimeout(saveProgress, 1000) and what its closure captured
  loads,            \* loadUserDataForDate executions in flight
  dailyWrites,      \* saveDailyProgressForDate calls in flight, in issue order
  progressWrites,   \* saveUserProgress calls of saveProgress in flight, in issue order
  userProgressColl, \* Firestore collection userProgress
  dailyHistoryColl, \* Firestore collection dailyHistory
  nMut,             \* history: updateQuestions calls so far
  nSwitch,          \* history: date changes so far
  nEdit,            \* history: updateTarget calls so far
  lastEdit,         \* history: the subject index and the input of the last updateTarget
  nFail,            \* history: adapter calls that failed so far
  winUpserts,       \* history: Daily Record upserts issued in the current quiescence window
  dirty,            \* history: the snapshot was mutated since it was last loaded
  loadedDate,       \* history: the date whose merge the snapshot last came from (0: none)
  fnMut,            \* function-level run of updateQuestions (SpecFn)
  fnSeq,            \* function-level run of a sequence of updateQuestions (SpecFn)
  fnMerge,          \* function-level run of the load merge (SpecFn)
  fnInit,           \* function-level run of two initializeUserProgress calls (SpecFn)
  fnRoll,           \* function-level run of the two rollups (SpecFn)
  fnPct,            \* function-level run of getProgressPercentage (SpecFn)
  sessions,         \* page instances of the user on several devices (SpecSessions)
  userSettingsColl  \* Firestore collection userSettings

appVars == <<currentUser, authLoading, selectedDate, subjectProgress, totalQuestions,
             totalTarget, dataLoading, saveLoading, dailyHistory, timer, loads>>
netVars == <<dailyWrites, progressWrites, userProgressColl, dailyHistoryColl>>
histVars == <<nMut, nSwitch, nEdit, lastEdit, nFail, winUpserts, dirty, loadedDate>>
fnVars == <<fnMut, fnSeq, fnMerge, fnInit, fnRoll, fnPct>>
otherVars == <<sessions, userSettingsColl>>
vars == <<appVars, netVars, histVars, fnVars, otherVars>>

\* ------------------------------------------------------------ the catalog
Subject(name, target) ==
  [name |-> name, target |-> target, correct |-> 0, wrong |-> 0, empty |-> 0]

\* The default catalog without its last subject.
defaultSubjectsFive ==
  << Subject("Turkce", 10), Subject("Matematik", 15), Subject("Sosyal Bilgiler", 8),
     Subject("Fen Bilimleri", 12), Subject("Ingilizce", 10) >>

defaultSubjects ==
  << Subject("Turkce", 10), Subject("Matematik", 15), Subject("Sosyal Bilgiler", 8),
     Subject("Fen Bilimleri", 12), Subject("Ingilizce", 10), Subject("Din Kulturu", 5) >>

SumTargets(subjects) == SumSeq([i \in 1..Len(subjects) |-> subjects[i].target])

SubjectTotal(s) == s.correct + s.wrong + s.empty

SumQuestions(subjects) == SumSeq([i \in 1..Len(subjects) |-> SubjectTotal(subjects[i])])

SubjectNames(subjects) == {subjects[i].name : i \in 1..Len(subjects)}

\* ----------------------------------------------------- the snapshot manager
updateQuestionsNoClamp(subjects, subjectIndex, type, change) ==
  [subjects EXCEPT ![subjectIndex][type] = @ + change]

updateQuestions(subjects, subjectIndex, type, change) ==
  [subjects EXCEPT ![subjectIndex][type] = Max(0, @ + change)]

\* The payload updateQuestions builds for the selected date.
RecordSubjects(subjects) ==
  [n \in SubjectNames(subjects) |->
     LET s == CHOOSE x \in {subjects[i] : i \in 1..Len(subjects)} : x.name = n
     IN  [correct |-> s.correct, wrong |-> s.wrong, empty |-> s.empty,
          total |-> SubjectTotal(s)]]

\* The payload with the total the state held before the mutation.
progressForDateTotalKept(date, subjects) ==
  [date |-> date, subjects |-> RecordSubjects(subjects), total |-> totalQuestions]

progressForDate(date, subjects) ==
  [date |-> date, subjects |-> RecordSubjects(subjects), total |-> SumQuestions(subjects)]

\* Number.parseInt(value) || 1 : NaN and 0 become 1
RawTargets == {[nan |-> TRUE, n |-> 0], [nan |-> FALSE, n |-> 0],
               [nan |-> FALSE, n |-> -3], [nan |-> FALSE, n |-> 20]}

parseTarget(raw) == IF raw.nan \/ raw.n = 0 THEN 1 ELSE raw.n

updateTargetNoClamp(subjects, subjectIndex, newTarget) ==
  [subjects EXCEPT ![subjectIndex].target = newTarget]

updateTarget(subjects, subjectIndex, newTarget) ==
  [subjects EXCEPT ![subjectIndex].target = Max(1, newTarget)]

\* newProgress.reduce((sum, subject) => sum + subject.target, 0)
newTotalTargetKept(newProgress) == totalTarget

newTotalTarget(newProgress) == SumTargets(newProgress)

\* The merge of loadUserDataForDate; dateProgress is <<>> (null) or <<record>>.
mergeKeepCatalogCounters(catalogSubjects, dateProgress) ==
  [i \in 1..Len(catalogSubjects) |->
     LET subject == catalogSubjects[i] IN
     IF dateProgress # <<>> /\ subject.name \in DOMAIN dateProgress[1].subjects
     THEN LET dateData == dateProgress[1].subjects[subject.name]
          IN  [subject EXCEPT !.correct = dateData.correct, !.wrong = dateData.wrong,
                              !.empty = dateData.empty]
     ELSE subject]

finalSubjects(catalogSubjects, dateProgress) ==
  [i \in 1..Len(catalogSubjects) |->
     LET subject == catalogSubjects[i] IN
     IF dateProgress # <<>> /\ subject.name \in DOMAIN dateProgress[1].subjects
     THEN LET dateData == dateProgress[1].subjects[subject.name]
          IN  [subject EXCEPT !.correct = dateData.correct, !.wrong = dateData.wrong,
                              !.empty = dateData.empty]
     ELSE [subject EXCEPT !.correct = 0, !.wrong = 0, !.empty = 0]]

\* ------------------------------------------------------- the store adapter
\* `${userId}_${date}`
DocId(userId, date) == <<userId, date>>

\* setDoc(ref, data, {merge: true}): fields of data overwrite, nested maps merge
MergeDoc(old, new) ==
  [new EXCEPT !.subjects =
     [n \in DOMAIN old.subjects \cup DOMAIN new.subjects |->
        IF n \in DOMAIN new.subjects THEN new.subjects[n] ELSE old.subjects[n]]]

\* The write done with addDoc, under an auto-generated id (what saveDailyHistory does).
saveDailyProgressWithAddDoc(coll, userId, dailyProgress) ==
  coll \cup {[id |-> <<"auto", Cardinality(coll) + 1>>, userId |-> userId,
              date |-> dailyProgress.date, subjects |-> dailyProgress.subjects,
              total |-> dailyProgress.total]}

saveDailyProgressForDate(coll, userId, dailyProgress) ==
  LET id == DocId(userId, dailyProgress.date)
      data == [id |-> id, userId |-> userId, date |-> dailyProgress.date,
               subjects |-> dailyProgress.subjects, total |-> dailyProgress.total]
      old == {d \in coll : d.id = id}
  IN  (coll \ old) \cup {IF old = {} THEN data ELSE MergeDoc(CHOOSE d \in old : TRUE, data)}

\* <<>> when the document does not exist
getDailyProgressForDate(coll, userId, dateString) ==
  LET id == DocId(userId, dateString)
      found == {d \in coll : d.id = id}
  IN  IF found = {} THEN <<>> ELSE <<CHOOSE d \in found : TRUE>>

RECURSIVE NewestFirst(_)
NewestFirst(docs) ==
  IF docs = {} THEN <<>>
  ELSE LET d == CHOOSE x \in docs : \A y \in docs : y.date <= x.date
       IN  <<d>> \o NewestFirst(docs \ {d})

getUserDailyHistory(coll, userId) ==
  LET all == NewestFirst({d \in coll : d.userId = userId})
  IN  SubSeq(all, 1, Min(Len(all), HistoryLimit))

getUserProgress(coll, userId) ==
  LET found == {d \in coll : d.id = userId}
  IN  IF found = {} THEN <<>> ELSE <<CHOOSE d \in found : TRUE>>

\* setDoc without merge: the document is replaced
saveUserProgress(coll, userId, subjects, target) ==
  {d \in coll : d.id # userId}
    \cup {[id |-> userId, subjects |-> subjects, totalTarget |-> target]}

\* initializeUserProgress run without interruption: nothing is written when the
\* document exists, the six defaults are written otherwise.
initializeUserProgressUnchecked(coll, userId) ==
  saveUserProgress(coll, userId, defaultSubjects, SumTargets(defaultSubjects))

initializeUserProgress(coll, userId) ==
  IF getUserProgress(coll, userId) # <<>>
  THEN coll
  ELSE saveUserProgress(coll, userId, defaultSubjects, SumTargets(defaultSubjects))

\* <<>> when the document does not exist
getUserSettings(coll, userId) ==
  LET found == {d \in coll : d.id = userId}
  IN  IF found = {} THEN <<>> ELSE <<CHOOSE d \in found : TRUE>>

\* setDoc without merge, of the structure and the targets with the counters reset
saveUserSettings(coll, userId, subjects, target) ==
  {d \in coll : d.id # userId}
    \cup {[id |-> userId,
            subjects |-> [i \in 1..Len(subjects) |->
                            [subjects[i] EXCEPT !.correct = 0, !.wrong = 0, !.empty = 0]],
            totalTarget |-> target]}

initializeUserSettings(coll, userId) ==
  IF getUserSettings(coll, userId) # <<>>
  THEN coll
  ELSE saveUserSettings(coll, userId, defaultSubjects, SumTargets(defaultSubjects))

\* ------------------------------------------------------- the percentages
\* A JavaScript number that is a ratio num/den, or NaN.
Number(num, den) == [kind |-> "number", num |-> num, den |-> den]

NaN == [kind |-> "NaN", num |-> 0, den |-> 1]

\* Math.min((total / subject.target) * 100, 100): total / 0 is Infinity, 0 / 0 is NaN
\* and Math.min of NaN is NaN.
getProgressPercentage(subject) ==
  LET total == subject.correct + subject.wrong + subject.empty IN
  IF subject.target = 0
  THEN (IF total = 0 THEN NaN ELSE Number(100, 1))
  ELSE IF subject.target > 0 /\ total >= subject.target
       THEN Number(100, 1)
       ELSE Number(total * 100, subject.target)

\* totalTarget > 0 ? (totalQuestions / totalTarget) * 100 : 0
overallProgress ==
  IF totalTarget > 0 THEN Number(totalQuestions * 100, totalTarget) ELSE Number(0, 1)

\* ------------------------------------------------------------ the rollups
\* "Initialize with current day progress": one entry per subject of the snapshot.
SeedStats(subjects) == RecordSubjects(subjects)

\* The body of the inner forEach: the entry is added only under a key the stats have.
AddEntryAnyName(stats, subjectName, data) ==
  [n \in DOMAIN stats \cup {subjectName} |->
     IF n # subjectName THEN stats[n]
     ELSE IF n \in DOMAIN stats
          THEN [correct |-> stats[n].correct + data.correct,
                wrong |-> stats[n].wrong + data.wrong,
                empty |-> stats[n].empty + data.empty,
                total |-> stats[n].total + data.total]
          ELSE data]

AddEntry(stats, subjectName, data) ==
  IF subjectName \in DOMAIN stats
  THEN [stats EXCEPT ![subjectName] =
          [correct |-> @.correct + data.correct, wrong |-> @.wrong + data.wrong,
           empty |-> @.empty + data.empty, total |-> @.total + data.total]]
  ELSE stats

\* Object.entries(day.subjects).forEach(...)
RECURSIVE AddDay(_, _, _)
AddDay(stats, day, names) ==
  IF names = {} THEN stats
  ELSE LET n == CHOOSE x \in names : TRUE
       IN  AddDay(AddEntry(stats, n, day.subjects[n]), day, names \ {n})

\* dailyHistory.forEach(...)
RECURSIVE AddHistory(_, _)
AddHistory(stats, history) ==
  IF history = <<>> THEN stats
  ELSE AddHistory(AddDay(stats, Head(history), DOMAIN Head(history).subjects), Tail(history))

calculateAllTimeStatsSeedOnly(subjects, history) == SeedStats(subjects)

calculateAllTimeStats(subjects, history) == AddHistory(SeedStats(subjects), history)

\* new Date("YYYY-MM-DD"): midnight UTC of that day
DateTime(date) == date * TicksPerDay

\* new Date() then setDate(getDate() - 7): the same local wall-clock time seven local
\* calendar days earlier, that is now - 7 days, moved by tzShift when the local UTC
\* offset changed within those days (a daylight-saving change).
weekAgo(now, tzShift) == now - 7 * TicksPerDay + tzShift

\* dailyHistory.filter((day) => new Date(day.date) >= weekAgo)
RECURSIVE SinceWeekAgo(_, _)
SinceWeekAgo(history, since) ==
  IF history = <<>> THEN <<>>
  ELSE (IF DateTime(Head(history).date) >= since THEN <<Head(history)>> ELSE <<>>)
         \o SinceWeekAgo(Tail(history), since)

calculateWeeklyStats(subjects, history, now, tzShift) ==
  AddHistory(SeedStats(subjects), SinceWeekAgo(history, weekAgo(now, tzShift)))

\* -------------------------------------------------- what the page renders
\* The controls exist only past the three early returns of the render.
ControlsRenderedNoLoadingScreen == ~authLoading /\ currentUser # NoUser

ControlsRendered == ~authLoading /\ currentUser # NoUser /\ ~dataLoading

MinusDisabled(subject, type) == subject[type] = 0

\* The save effect: clearTimeout of the pending timer, then a new setTimeout whose
\* closure holds the currentUser and dataLoading of the render that armed it.
ArmTimerNotStarted(user, loading) ==
  [pending |-> FALSE, user |-> user, dataLoading |-> loading]

ArmTimer(user, loading) == [pending |-> TRUE, user |-> user, dataLoading |-> loading]

\* The guard of saveProgress, on what the closure of the timer holds.
saveProgressSkipsLoadingUnchecked(user, loading, subjects) ==
  user = NoUser \/ Len(subjects) = 0

saveProgressSkipsUserUnchecked(user, loading, subjects) == loading \/ Len(subjects) = 0

saveProgressSkips(user, loading, subjects) ==
  user = NoUser \/ loading \/ Len(subjects) = 0

\* newProgress.reduce((sum, subject) => sum + subject.correct + subject.wrong + subject.empty, 0)
newTotalKept(newProgress) == totalQuestions

newTotal(newProgress) == SumQuestions(newProgress)

\* The write updateQuestions issues for the mutation it has just applied.
IssueDailyWriteDebounced(writes, payload) == writes

IssueDailyWrite(writes, payload) == Append(writes, payload)

NewLoad(date) == [date |-> date, pc |-> "getUserProgress", userProgress |-> <<>>]

Remove(s, i) == SubSeq(s, 1, i - 1) \o SubSeq(s, i + 1, Len(s))

\* The user actions and adapter failures of a behaviour are bounded together.
Events == nMut + nSwitch + nEdit + nFail

MayAct == Events < MaxEvents

MayFail == nFail < MaxFailures /\ Events < MaxEvents

\* The writes outstanding at one moment, Daily Record writes and catalog saves together.
MaySend == Len(dailyWrites) + Len(progressWrites) < MaxInFlight

\* ------------------------------------------------------------------- Init
FnInit ==
  /\ fnMut = [done |-> FALSE, before |-> <<>>, idx |-> 1, type |-> "correct",
              change |-> 1, after |-> <<>>]
  /\ fnSeq = [started |-> FALSE, type |-> "correct", initial |-> 0, counter |-> 0,
              sum |-> 0, low |-> 0, n |-> 0]
  /\ fnMerge = [done |-> FALSE, catalog |-> <<>>, record |-> <<>>, result |-> <<>>]
  /\ fnInit = [done |-> FALSE, before |-> {}, once |-> {}, twice |-> {}]
  /\ fnRoll = [done |-> FALSE, subjects |-> <<>>, date |-> Today, history |-> <<>>, now |-> 0,
               tzShift |-> 0, allTime |-> <<>>, weekly |-> <<>>]
  /\ fnPct = [done |-> FALSE, subject |-> Subject("Turkce", 10), value |-> NaN]

AppInit ==
  /\ currentUser = NoUser
  /\ authLoading = TRUE
  /\ selectedDate = Today
  /\ subjectProgress = <<>>
  /\ totalQuestions = 0
  /\ totalTarget = 60
  /\ dataLoading = TRUE
  /\ saveLoading = FALSE
  /\ dailyHistory = <<>>
  /\ timer = ArmTimer(NoUser, TRUE)
  /\ loads = {}
  /\ dailyWrites = <<>>
  /\ progressWrites = <<>>
  /\ userProgressColl = {}
  /\ dailyHistoryColl = {}
  /\ nMut = 0
  /\ nSwitch = 0
  /\ nEdit = 0
  /\ lastEdit = [idx |-> 0, raw |-> [nan |-> FALSE, n |-> 0]]
  /\ nFail = 0
  /\ winUpserts = 0
  /\ dirty = FALSE
  /\ loadedDate = 0
  /\ userSettingsColl = {}

\* Every page instance starts before its first load; its snapshot is empty.
SessInit ==
  sessions = [s \in 1..MaxSessions |->
                [pc |-> "getUserProgress", subjects |-> <<>>, totalTarget |-> 60,
                 timer |-> FALSE, writes |-> <<>>, nEdit |-> 0]]

Init == AppInit /\ FnInit /\ SessInit

\* ------------------------------------------------------------ the session
\* AuthProvider.register, the way an account comes to exist: after the account and the
\* profile it writes the default settings.  (A register that fails half way is left out.)
Register ==
  /\ authLoading
  /\ getUserSettings(userSettingsColl, UserId) = <<>>
  /\ userSettingsColl' = initializeUserSettings(userSettingsColl, UserId)
  /\ UNCHANGED <<appVars, netVars, histVars, fnVars, sessions>>

\* onAuthStateChanged delivers the signed-in user, whose account was registered: the
\* load effect starts the load of the selected date and the save effect re-arms its timer.
AuthStateChanged ==
  /\ authLoading
  /\ getUserSettings(userSettingsColl, UserId) # <<>>
  /\ authLoading' = FALSE
  /\ currentUser' = UserId
  /\ dataLoading' = TRUE
  /\ loads' = loads \cup {NewLoad(selectedDate)}
  /\ timer' = ArmTimer(UserId, dataLoading)
  /\ winUpserts' = 0
  /\ UNCHANGED <<selectedDate, subjectProgress, totalQuestions, totalTarget, saveLoading,
                 dailyHistory, netVars, nMut, nSwitch, nEdit, lastEdit, nFail, dirty, loadedDate, fnVars, otherVars>>

\* The logout button: signOut, then onAuthStateChanged delivers null; the page renders
\* nothing and is left for /login, the save effect re-arms its timer without a user.
Logout ==
  /\ ControlsRendered
  /\ currentUser' = NoUser
  /\ timer' = ArmTimer(NoUser, dataLoading)
  /\ winUpserts' = 0
  /\ UNCHANGED <<authLoading, selectedDate, subjectProgress, totalQuestions, totalTarget,
                 dataLoading, saveLoading, dailyHistory, loads, netVars, nMut, nSwitch,
                 nEdit, lastEdit, nFail, dirty, loadedDate, fnVars, otherVars>>

\* The date input: setSelectedDate, then the load effect runs loadUserDataForDate.
SelectDate(d) ==
  /\ ControlsRendered
  /\ d # selectedDate
  /\ nSwitch < MaxSwitches /\ MayAct
  /\ selectedDate' = d
  /\ dataLoading' = TRUE
  /\ loads' = loads \cup {NewLoad(d)}
  /\ nSwitch' = nSwitch + 1
  /\ UNCHANGED <<currentUser, authLoading, subjectProgress, totalQuestions, totalTarget,
                 saveLoading, dailyHistory, timer, netVars, nMut, nEdit, lastEdit, nFail,
                 winUpserts, dirty, loadedDate, fnVars, otherVars>>

\* A plus or minus button: updateQuestions(subjectIndex, type, change).
Mutate(subjectIndex, type, change) ==
  /\ ControlsRendered
  /\ subjectIndex \in 1..Min(MaxIdx, Len(subjectProgress))
  /\ ~(change = -1 /\ MinusDisabled(subjectProgress[subjectIndex], type))
  /\ nMut < MaxMutations /\ MayAct
  /\ MaySend
  /\ LET newProgress == updateQuestions(subjectProgress, subjectIndex, type, change)
         issued == IF currentUser # NoUser
                   THEN IssueDailyWrite(dailyWrites, progressForDate(selectedDate, newProgress))
                   ELSE dailyWrites
     IN  /\ subjectProgress' = newProgress
         /\ totalQuestions' = newTotal(newProgress)
         /\ dailyWrites' = issued
         /\ winUpserts' = winUpserts + (Len(issued) - Len(dailyWrites))
  /\ timer' = ArmTimer(currentUser, dataLoading)
  /\ nMut' = nMut + 1
  /\ dirty' = TRUE
  /\ loadedDate' = loadedDate
  /\ UNCHANGED <<currentUser, authLoading, selectedDate, totalTarget, dataLoading,
                 saveLoading, dailyHistory, loads, progressWrites, userProgressColl,
                 dailyHistoryColl, nSwitch, nEdit, lastEdit, nFail, fnVars, otherVars>>

\* The target input (onBlur, or Enter in handleTargetKeyPress).
EditTarget(subjectIndex, raw) ==
  /\ ControlsRendered
  /\ subjectIndex \in 1..Min(MaxIdx, Len(subjectProgress))
  /\ nEdit < MaxTargetEdits /\ MayAct
  /\ LET newProgress == updateTarget(subjectProgress, subjectIndex, parseTarget(raw))
     IN  /\ subjectProgress' = newProgress
         /\ totalTarget' = newTotalTarget(newProgress)
  /\ timer' = ArmTimer(currentUser, dataLoading)
  /\ winUpserts' = 0
  /\ nEdit' = nEdit + 1
  /\ lastEdit' = [idx |-> subjectIndex, raw |-> raw]
  /\ UNCHANGED <<currentUser, authLoading, selectedDate, totalQuestions, dataLoading,
                 saveLoading, dailyHistory, loads, netVars, nMut, nSwitch, nFail, dirty, loadedDate,
                 fnVars, otherVars>>

\* The debounce timer expires: saveProgress runs with what its closure captured.
TimerFire ==
  /\ timer.pending
  /\ timer' = [timer EXCEPT !.pending = FALSE]
  /\ winUpserts' = 0
  /\ IF saveProgressSkips(timer.user, timer.dataLoading, subjectProgress)
     THEN UNCHANGED <<saveLoading, progressWrites>>
     ELSE /\ Len(progressWrites) < MaxSaves /\ MaySend
          /\ saveLoading' = TRUE
          /\ progressWrites' =
               Append(progressWrites, [subjects |-> subjectProgress, totalTarget |-> totalTarget])
  /\ UNCHANGED <<currentUser, authLoading, selectedDate, subjectProgress, totalQuestions,
                 totalTarget, dataLoading, dailyHistory, loads, dailyWrites,
                 userProgressColl, dailyHistoryColl, nMut, nSwitch, nEdit, lastEdit, nFail, dirty, loadedDate,
                 fnVars, otherVars>>

\* ------------------------------------------------------ writes in flight
\* The store applies an outstanding Daily Record write; nothing follows the await.
DailyWriteApplied(i) ==
  /\ i \in 1..Len(dailyWrites)
  /\ dailyHistoryColl' = saveDailyProgressForDate(dailyHistoryColl, UserId, dailyWrites[i])
  /\ dailyWrites' = Remove(dailyWrites, i)
  /\ UNCHANGED <<appVars, progressWrites, userProgressColl, histVars, fnVars, otherVars>>

\* The write throws: updateQuestions logs the error.
DailyWriteFailed(i) ==
  /\ i \in 1..Len(dailyWrites)
  /\ MayFail
  /\ dailyWrites' = Remove(dailyWrites, i)
  /\ nFail' = nFail + 1
  /\ UNCHANGED <<appVars, progressWrites, userProgressColl, dailyHistoryColl, nMut,
                 nSwitch, nEdit, lastEdit, winUpserts, dirty, loadedDate, fnVars, otherVars>>

\* saveProgress resumes after its saveUserProgress: finally setSaveLoading(false).
ProgressWriteApplied(i) ==
  /\ i \in 1..Len(progressWrites)
  /\ userProgressColl' = saveUserProgress(userProgressColl, UserId,
                                          progressWrites[i].subjects,
                                          progressWrites[i].totalTarget)
  /\ progressWrites' = Remove(progressWrites, i)
  /\ saveLoading' = FALSE
  /\ UNCHANGED <<currentUser, authLoading, selectedDate, subjectProgress, totalQuestions,
                 totalTarget, dataLoading, dailyHistory, timer, loads, dailyWrites,
                 dailyHistoryColl, histVars, fnVars, otherVars>>

ProgressWriteFailed(i) ==
  /\ i \in 1..Len(progressWrites)
  /\ MayFail
  /\ progressWrites' = Remove(progressWrites, i)
  /\ saveLoading' = FALSE
  /\ nFail' = nFail + 1
  /\ UNCHANGED <<currentUser, authLoading, selectedDate, subjectProgress, totalQuestions,
                 totalTarget, dataLoading, dailyHistory, timer, loads, dailyWrites,
                 userProgressColl, dailyHistoryColl, nMut, nSwitch, nEdit, lastEdit, winUpserts,
                 dirty, loadedDate, fnVars, otherVars>>

\* ------------------------------------------------- loadUserDataForDate
Advance(l, pc, userProgress) ==
  loads' = (loads \ {l}) \cup {[date |-> l.date, pc |-> pc, userProgress |-> userProgress]}

\* The outer finally: setDataLoading(false), the execution ends.
FinishFlagKept(l) == loads' = loads \ {l} /\ dataLoading' = dataLoading

Finish(l) == loads' = loads \ {l} /\ dataLoading' = FALSE

LoadFrame == UNCHANGED <<currentUser, authLoading, selectedDate, saveLoading, dailyWrites,
                         progressWrites, dailyHistoryColl, nMut, nSwitch, nEdit, lastEdit, fnVars, otherVars>>

\* let userProgress = await getUserProgress(uid)
LoadGetUserProgress(l) ==
  /\ l \in loads /\ l.pc = "getUserProgress"
  /\ LET found == getUserProgress(userProgressColl, UserId)
     IN  IF found # <<>> THEN Advance(l, "getDailyProgressForDate", found)
                         ELSE Advance(l, "initializeCheck", <<>>)
  /\ LoadFrame
  /\ UNCHANGED <<subjectProgress, totalQuestions, totalTarget, dataLoading, dailyHistory,
                 timer, userProgressColl, nFail, winUpserts, dirty, loadedDate>>

\* It throws: the outer catch logs, the finally ends the load with nothing applied.
LoadGetUserProgressFailed(l) ==
  /\ l \in loads /\ l.pc = "getUserProgress"
  /\ MayFail
  /\ Finish(l)
  /\ nFail' = nFail + 1
  /\ LoadFrame
  /\ UNCHANGED <<subjectProgress, totalQuestions, totalTarget, dailyHistory, timer,
                 userProgressColl, winUpserts, dirty, loadedDate>>

\* initializeUserProgress: the existence check
LoadInitializeCheck(l) ==
  /\ l \in loads /\ l.pc = "initializeCheck"
  /\ IF getUserProgress(userProgressColl, UserId) # <<>>
     THEN Advance(l, "getUserProgressAgain", <<>>)
     ELSE Advance(l, "initializeWrite", <<>>)
  /\ LoadFrame
  /\ UNCHANGED <<subjectProgress, totalQuestions, totalTarget, dataLoading, dailyHistory,
                 timer, userProgressColl, nFail, winUpserts, dirty, loadedDate>>

\* initializeUserProgress: saveUserProgress(uid, defaultSubjects, totalTarget)
LoadInitializeWrite(l) ==
  /\ l \in loads /\ l.pc = "initializeWrite"
  /\ userProgressColl' = saveUserProgress(userProgressColl, UserId, defaultSubjects,
                                          SumTargets(defaultSubjects))
  /\ Advance(l, "getUserProgressAgain", <<>>)
  /\ LoadFrame
  /\ UNCHANGED <<subjectProgress, totalQuestions, totalTarget, dataLoading, dailyHistory,
                 timer, nFail, winUpserts, dirty, loadedDate>>

\* userProgress = await getUserProgress(uid), after the initialization
LoadGetUserProgressAgain(l) ==
  /\ l \in loads /\ l.pc = "getUserProgressAgain"
  /\ LET found == getUserProgress(userProgressColl, UserId)
     IN  IF found # <<>> THEN Advance(l, "getDailyProgressForDate", found)
                         ELSE Advance(l, "getUserDailyHistory", <<>>)
  /\ LoadFrame
  /\ UNCHANGED <<subjectProgress, totalQuestions, totalTarget, dataLoading, dailyHistory,
                 timer, userProgressColl, nFail, winUpserts, dirty, loadedDate>>

\* Any of the three awaits of the initialization throws: catch (initError) sets
\* userProgress = null and the load goes on to the history.
LoadInitializeFailed(l) ==
  /\ l \in loads /\ l.pc \in {"initializeCheck", "initializeWrite", "getUserProgressAgain"}
  /\ MayFail
  /\ Advance(l, "getUserDailyHistory", <<>>)
  /\ nFail' = nFail + 1
  /\ LoadFrame
  /\ UNCHANGED <<subjectProgress, totalQuestions, totalTarget, dataLoading, dailyHistory,
                 timer, userProgressColl, winUpserts, dirty, loadedDate>>

\* dateProgress arrives (null when the read failed: getDailyProgressForDate catches);
\* the merged snapshot, the total target and the total are set in one render, whose
\* save effect re-arms the timer.
ApplyDateProgress(l, dateProgress) ==
  LET merged == finalSubjects(l.userProgress[1].subjects, dateProgress)
  IN  /\ subjectProgress' = merged
      /\ totalTarget' = l.userProgress[1].totalTarget
      /\ totalQuestions' = SumQuestions(merged)
      /\ timer' = ArmTimer(currentUser, dataLoading)
      /\ winUpserts' = 0
      /\ dirty' = FALSE
      /\ loadedDate' = l.date
      /\ Advance(l, "getUserDailyHistory", l.userProgress)

LoadGetDailyProgress(l) ==
  /\ l \in loads /\ l.pc = "getDailyProgressForDate"
  /\ ApplyDateProgress(l, getDailyProgressForDate(dailyHistoryColl, UserId, l.date))
  /\ LoadFrame
  /\ UNCHANGED <<dataLoading, dailyHistory, userProgressColl, nFail>>

LoadGetDailyProgressFailed(l) ==
  /\ l \in loads /\ l.pc = "getDailyProgressForDate"
  /\ MayFail
  /\ ApplyDateProgress(l, <<>>)
  /\ nFail' = nFail + 1
  /\ LoadFrame
  /\ UNCHANGED <<dataLoading, dailyHistory, userProgressColl>>

\* history arrives ([] when the query failed); finally setDataLoading(false)
LoadGetHistory(l) ==
  /\ l \in loads /\ l.pc = "getUserDailyHistory"
  /\ dailyHistory' = getUserDailyHistory(dailyHistoryColl, UserId)
  /\ Finish(l)
  /\ LoadFrame
  /\ UNCHANGED <<subjectProgress, totalQuestions, totalTarget, timer, userProgressColl,
                 nFail, winUpserts, dirty, loadedDate>>

LoadGetHistoryFailed(l) ==
  /\ l \in loads /\ l.pc = "getUserDailyHistory"
  /\ MayFail
  /\ dailyHistory' = <<>>
  /\ Finish(l)
  /\ nFail' = nFail + 1
  /\ LoadFrame
  /\ UNCHANGED <<subjectProgress, totalQuestions, totalTarget, timer, userProgressColl,
                 winUpserts, dirty, loadedDate>>

\* ------------------------------------------------------------------- Spec
Next ==
  \/ Register
  \/ AuthStateChanged
  \/ Logout
  \/ \E d \in Dates : SelectDate(d)
  \/ \E i \in 1..MaxIdx, t \in Fields, c \in {-1, 1} : Mutate(i, t, c)
  \/ \E i \in 1..MaxIdx, raw \in RawTargets : EditTarget(i, raw)
  \/ TimerFire
  \/ \E i \in 1..MaxInFlight : DailyWriteApplied(i)
  \/ \E i \in 1..MaxInFlight : DailyWriteFailed(i)
  \/ \E i \in 1..MaxSaves : ProgressWriteApplied(i)
  \/ \E i \in 1..MaxSaves : ProgressWriteFailed(i)
  \/ \E l \in loads : LoadGetUserProgress(l)
  \/ \E l \in loads : LoadGetUserProgressFailed(l)
  \/ \E l \in loads : LoadInitializeCheck(l)
  \/ \E l \in loads : LoadInitializeWrite(l)
  \/ \E l \in loads : LoadGetUserProgressAgain(l)
  \/ \E l \in loads : LoadInitializeFailed(l)
  \/ \E l \in loads : LoadGetDailyProgress(l)
  \/ \E l \in loads : LoadGetDailyProgressFailed(l)
  \/ \E l \in loads : LoadGetHistory(l)
  \/ \E l \in loads : LoadGetHistoryFailed(l)

Spec == Init /\ [][Next]_vars

\* Each adapter call of a load in flight eventually returns or fails.
LoadStep ==
  \E l \in loads :
     \/ LoadGetUserProgress(l) \/ LoadGetUserProgressFailed(l)
     \/ LoadInitializeCheck(l) \/ LoadInitializeWrite(l)
     \/ LoadGetUserProgressAgain(l) \/ LoadInitializeFailed(l)
     \/ LoadGetDailyProgress(l) \/ LoadGetDailyProgressFailed(l)
     \/ LoadGetHistory(l) \/ LoadGetHistoryFailed(l)

SpecLive == Init /\ [][Next]_vars /\ WF_vars(LoadStep)

\* ------------------------------------------- the functions on their own
\* Inputs of the function-level runs: snapshots of two subjects with small counters,
\* catalogs whose stored subjects may carry counters (saveUserProgress stores the
\* snapshot as it is), and Daily Records over catalog names and a name of no subject.
FnCounts == 0..FnMaxCount

FnSubjects(name, target) ==
  {[name |-> name, target |-> target, correct |-> c, wrong |-> w, empty |-> e] :
     c \in FnCounts, w \in FnCounts, e \in FnCounts}

FnSnapshots ==
  {<<a, b>> : a \in FnSubjects("Turkce", 10), b \in FnSubjects("Matematik", 15)}

FnCatalogs ==
  {<<a, b>> : a \in FnSubjects("Turkce", 10),
              b \in {x \in FnSubjects("Matematik", 15) : x.wrong = 0 /\ x.empty = 0}}

FnEntries == {[correct |-> c, wrong |-> 1, empty |-> 0, total |-> c + 1] : c \in {0, 2}}

FnRecords ==
  {<<>>} \cup
  {<<[date |-> Today, subjects |-> f, total |-> 0]>> :
     f \in UNION {[D -> FnEntries] : D \in SUBSET {"Turkce", "Matematik", "Eski Ders"}}}

\* Stores with no catalog of the user or with one, whose targets the user may have
\* adjusted, next to another user's catalog or not.
FnOtherCatalog == [id |-> "u2", subjects |-> defaultSubjects, totalTarget |-> 60]

FnCatalogColls ==
  {own \cup other :
     own \in {{}} \cup {{[id |-> UserId, subjects |-> c, totalTarget |-> SumTargets(c)]} :
                           c \in FnCatalogs \cup {updateTarget(defaultSubjects, 1, 20)}},
     other \in {{}, {FnOtherCatalog}}}

\* Histories as getUserDailyHistory returns them: one record per date, newest first.
\* The dates are days before Today; the times of day and the changes of the local UTC
\* offset (one hour either way, or none) are those of the instant the rollup is computed.
FnDaysAgo == {0, 3, 6, 7, 8, 10}

FnDaySubjects ==
  [{"Turkce"} -> FnEntries] \cup
  {[n \in {"Matematik", "Eski Ders"} |-> [correct |-> 2, wrong |-> 1, empty |-> 0, total |-> 3]]}

FnDayRecords ==
  {[date |-> Today - a, subjects |-> f, total |-> 0] : a \in FnDaysAgo, f \in FnDaySubjects}

FnHistories ==
  {h \in UNION {[1..k -> FnDayRecords] : k \in 0..FnMaxHistory} :
     \A i, j \in 1..Len(h) : i < j => h[i].date > h[j].date}

FnRollSnapshots ==
  {x \in FnSnapshots : \A i \in 1..2 : x[i].wrong = 0 /\ x[i].empty = 0}

FnTimesOfDay == {0, 1, TicksPerDay - 1}

FnTzShifts == {-2, 0, 2}

\* The snapshot is the one of the selected date: Today, or a date chosen in the date input.
FnSelectedDaysAgo == {0, 10}

\* Subjects as a stored catalog may hold them; updateTarget itself keeps targets >= 1.
FnPctSubjects ==
  {[name |-> "Turkce", target |-> t, correct |-> c, wrong |-> w, empty |-> 0] :
     t \in {0, 1, 3, 10}, c \in 0..(FnMaxCount + 1), w \in 0..(FnMaxCount + 1)}

\* A behaviour of SpecFn runs one function.
FnIdle ==
  ~fnMut.done /\ ~fnSeq.started /\ ~fnMerge.done /\ ~fnInit.done /\ ~fnRoll.done /\ ~fnPct.done

\* updateQuestions on any snapshot, index, field and delta
FnMutate(subjects, subjectIndex, type, change) ==
  /\ FnIdle
  /\ fnMut' = [done |-> TRUE, before |-> subjects, idx |-> subjectIndex, type |-> type,
               change |-> change,
               after |-> updateQuestions(subjects, subjectIndex, type, change)]
  /\ UNCHANGED <<appVars, netVars, histVars, otherVars, fnSeq, fnMerge, fnInit, fnRoll, fnPct>>

\* a counter with an initial value ...
FnSeqStart(type, initial) ==
  /\ FnIdle
  /\ fnSeq' = [started |-> TRUE, type |-> type, initial |-> initial, counter |-> initial,
               sum |-> 0, low |-> initial, n |-> 0]
  /\ UNCHANGED <<appVars, netVars, histVars, otherVars, fnMut, fnMerge, fnInit, fnRoll, fnPct>>

\* ... and one more updateQuestions on it
FnSeqStep(change) ==
  /\ fnSeq.started
  /\ fnSeq.n < FnMaxSteps
  /\ LET before == <<[Subject("Turkce", 10) EXCEPT ![fnSeq.type] = fnSeq.counter]>>
         after == updateQuestions(before, 1, fnSeq.type, change)
     IN  fnSeq' = [fnSeq EXCEPT !.counter = after[1][fnSeq.type],
                                !.sum = @ + change,
                                !.low = Min(@, fnSeq.initial + fnSeq.sum + change),
                                !.n = @ + 1]
  /\ UNCHANGED <<appVars, netVars, histVars, otherVars, fnMut, fnMerge, fnInit, fnRoll, fnPct>>

\* the merge of a load on any catalog and Daily Record
FnMergeRun(catalog, record) ==
  /\ FnIdle
  /\ fnMerge' = [done |-> TRUE, catalog |-> catalog, record |-> record,
                 result |-> finalSubjects(catalog, record)]
  /\ UNCHANGED <<appVars, netVars, histVars, otherVars, fnMut, fnSeq, fnInit, fnRoll, fnPct>>

\* initializeUserProgress called twice in a row on any store
FnInitRun(coll) ==
  /\ FnIdle
  /\ LET once == initializeUserProgress(coll, UserId)
     IN  fnInit' = [done |-> TRUE, before |-> coll, once |-> once,
                    twice |-> initializeUserProgress(once, UserId)]
  /\ UNCHANGED <<appVars, netVars, histVars, otherVars, fnMut, fnSeq, fnMerge, fnRoll, fnPct>>

\* the two rollups of a render, on any snapshot and history, at any instant of Today
FnRollRun(subjects, daysAgo, history, timeOfDay, tzShift) ==
  /\ FnIdle
  /\ LET now == DateTime(Today) + timeOfDay
     IN  fnRoll' = [done |-> TRUE, subjects |-> subjects, date |-> Today - daysAgo,
                    history |-> history, now |-> now, tzShift |-> tzShift,
                    allTime |-> calculateAllTimeStats(subjects, history),
                    weekly |-> calculateWeeklyStats(subjects, history, now, tzShift)]
  /\ UNCHANGED <<appVars, netVars, histVars, otherVars, fnMut, fnSeq, fnMerge, fnInit, fnPct>>

\* getProgressPercentage on any subject
FnPctRun(subject) ==
  /\ FnIdle
  /\ fnPct' = [done |-> TRUE, subject |-> subject, value |-> getProgressPercentage(subject)]
  /\ UNCHANGED <<appVars, netVars, histVars, otherVars, fnMut, fnSeq, fnMerge, fnInit, fnRoll>>

FnNext ==
  \/ FnIdle /\ \E subjects \in FnSnapshots, i \in 1..2, t \in Fields, c \in {-1, 1} :
                 FnMutate(subjects, i, t, c)
  \/ FnIdle /\ \E t \in Fields, initial \in FnCounts : FnSeqStart(t, initial)
  \/ \E c \in {-1, 1} : FnSeqStep(c)
  \/ FnIdle /\ \E catalog \in FnCatalogs, record \in FnRecords : FnMergeRun(catalog, record)
  \/ FnIdle /\ \E coll \in FnCatalogColls : FnInitRun(coll)
  \/ FnIdle /\ \E subjects \in FnRollSnapshots, a \in FnSelectedDaysAgo,
                   history \in FnHistories, t \in FnTimesOfDay, z \in FnTzShifts :
                 FnRollRun(subjects, a, history, t, z)
  \/ FnIdle /\ \E subject \in FnPctSubjects : FnPctRun(subject)

SpecFn == Init /\ [][FnNext]_vars

\* ------------------------------------------- the page on several devices
\* The catalog document userProgress/{uid} is shared by every page instance the user
\* has open ("data synchronized across devices").  Each instance runs the catalog part of
\* loadUserDataForDate, await by await, then updateTarget and the debounced saveProgress.
\* Daily Records are left out here: the merge is the one of a date with no record.
SessFrame == UNCHANGED <<appVars, dailyWrites, progressWrites, dailyHistoryColl, histVars,
                         fnVars, userSettingsColl>>

SessAdvance(s, pc) == sessions' = [sessions EXCEPT ![s].pc = pc]

\* setSubjectProgress(finalSubjects), setTotalTarget(userProgress.totalTarget); the
\* timer this arms holds dataLoading = true and expires without writing.
SessApply(s, found) ==
  sessions' = [sessions EXCEPT ![s].pc = "ready",
                               ![s].subjects = finalSubjects(found[1].subjects, <<>>),
                               ![s].totalTarget = found[1].totalTarget,
                               ![s].timer = FALSE]

\* let userProgress = await getUserProgress(uid)
SessGetUserProgress(s) ==
  /\ sessions[s].pc = "getUserProgress"
  /\ LET found == getUserProgress(userProgressColl, UserId)
     IN  IF found # <<>> THEN SessApply(s, found) ELSE SessAdvance(s, "initializeCheck")
  /\ UNCHANGED userProgressColl
  /\ SessFrame

\* initializeUserProgress: const existingProgress = await this.getUserProgress(userId)
SessInitializeCheck(s) ==
  /\ sessions[s].pc = "initializeCheck"
  /\ IF getUserProgress(userProgressColl, UserId) # <<>>
     THEN SessAdvance(s, "getUserProgressAgain")
     ELSE SessAdvance(s, "initializeWrite")
  /\ UNCHANGED userProgressColl
  /\ SessFrame

\* initializeUserProgress: await this.saveUserProgress(userId, defaultSubjects, totalTarget)
SessInitializeWrite(s) ==
  /\ sessions[s].pc = "initializeWrite"
  /\ userProgressColl' = saveUserProgress(userProgressColl, UserId, defaultSubjects,
                                          SumTargets(defaultSubjects))
  /\ SessAdvance(s, "getUserProgressAgain")
  /\ SessFrame

\* userProgress = await getUserProgress(uid), after the initialization
SessGetUserProgressAgain(s) ==
  /\ sessions[s].pc = "getUserProgressAgain"
  /\ SessApply(s, getUserProgress(userProgressColl, UserId))
  /\ UNCHANGED userProgressColl
  /\ SessFrame

\* the target input of a loaded page: updateTarget, and the save effect arms its timer
SessUpdateTarget(s, subjectIndex, raw) ==
  /\ sessions[s].pc = "ready"
  /\ sessions[s].nEdit < MaxTargetEdits
  /\ LET newProgress == updateTarget(sessions[s].subjects, subjectIndex, parseTarget(raw))
     IN  sessions' = [sessions EXCEPT ![s].subjects = newProgress,
                                      ![s].totalTarget = SumTargets(newProgress),
                                      ![s].timer = TRUE,
                                      ![s].nEdit = @ + 1]
  /\ UNCHANGED userProgressColl
  /\ SessFrame

\* the timer expires: saveProgress issues saveUserProgress with the snapshot
SessTimerFire(s) ==
  /\ sessions[s].timer
  /\ Len(sessions[s].writes) < MaxSaves
  /\ sessions' = [sessions EXCEPT
                    ![s].timer = FALSE,
                    ![s].writes = Append(@, [subjects |-> sessions[s].subjects,
                                             totalTarget |-> sessions[s].totalTarget])]
  /\ UNCHANGED userProgressColl
  /\ SessFrame

\* the store applies the catalog save
SessWriteApplied(s) ==
  /\ sessions[s].writes # <<>>
  /\ userProgressColl' = saveUserProgress(userProgressColl, UserId,
                                          Head(sessions[s].writes).subjects,
                                          Head(sessions[s].writes).totalTarget)
  /\ sessions' = [sessions EXCEPT ![s].writes = Tail(@)]
  /\ SessFrame

SessNext ==
  \/ \E s \in 1..MaxSessions : SessGetUserProgress(s)
  \/ \E s \in 1..MaxSessions : SessInitializeCheck(s)
  \/ \E s \in 1..MaxSessions : SessInitializeWrite(s)
  \/ \E s \in 1..MaxSessions : SessGetUserProgressAgain(s)
  \/ \E s \in 1..MaxSessions, i \in 1..MaxIdx, raw \in RawTargets : SessUpdateTarget(s, i, raw)
  \/ \E s \in 1..MaxSessions : SessTimerFire(s)
  \/ \E s \in 1..MaxSessions : SessWriteApplied(s)

SpecSessions == Init /\ [][SessNext]_vars

\* ================================================================ claims
StoredRecords(date) == {d \in dailyHistoryColl : d.userId = UserId /\ d.date = date}

\* The snapshot is the one loaded for the selected date, it was mutated since, the
\* controls are live, no write is outstanding and no adapter call has failed.
Settled ==
  /\ ~dataLoading /\ loads = {}
  /\ loadedDate = selectedDate
  /\ dirty
  /\ dailyWrites = <<>>
  /\ nFail = 0

C2_OneUpsertInFlightPerDate ==
  \A i, j \in 1..Len(dailyWrites) : dailyWrites[i].date = dailyWrites[j].date => i = j

\* C3: once the mutations on the selected date have stopped and every write issued has
\* completed without a failure, the store holds exactly one Daily Record for the date
\* and its counters are those of the snapshot.
C3_StoreConverges ==
  Settled =>
    /\ Cardinality(StoredRecords(selectedDate)) = 1
    /\ \A d \in StoredRecords(selectedDate) : d.subjects = RecordSubjects(subjectProgress)

\* C5: updateQuestions changes the snapshot and issues its write only when no load is
\* in flight and the merge for the selected date has been applied to the snapshot.
C5_MutationsOnlyWhenReady ==
  [][nMut' # nMut \/ Len(dailyWrites') > Len(dailyWrites) =>
       loads = {} /\ ~dataLoading /\ loadedDate = selectedDate]_vars

\* C6: the store never holds two Daily Records of the same user and date.
C6_OneRecordPerDate ==
  \A d1, d2 \in dailyHistoryColl :
     d1.userId = d2.userId /\ d1.date = d2.date => d1 = d2

C6_TwoWritesOneRecord ==
  /\ nMut = 2 /\ nFail = 0 /\ dailyWrites = <<>>
  /\ \E d \in dailyHistoryColl : d.total = 2
  /\ nSwitch = 1

\* C7: one updateQuestions sets the field to max(0, old + delta), a decrement at 0
\* leaving 0, and changes no other field and no other subject.
C7_MutateClampsAndFrames ==
  fnMut.done =>
    LET old == fnMut.before[fnMut.idx][fnMut.type] IN
    /\ Len(fnMut.after) = Len(fnMut.before)
    /\ fnMut.after[fnMut.idx][fnMut.type] =
         (IF old + fnMut.change < 0 THEN 0 ELSE old + fnMut.change)
    /\ \A i \in 1..Len(fnMut.before) :
       \A f \in DOMAIN fnMut.before[i] :
          (i # fnMut.idx \/ f # fnMut.type) => fnMut.after[i][f] = fnMut.before[i][f]
    /\ \A i \in 1..Len(fnMut.before) : DOMAIN fnMut.after[i] = DOMAIN fnMut.before[i]

C7_DecrementAtZero ==
  /\ fnMut.done /\ fnMut.change = -1
  /\ fnMut.before[fnMut.idx][fnMut.type] = 0
  /\ fnMut.after[fnMut.idx][fnMut.type] = 0

CountersOk(x) == x.correct >= 0 /\ x.wrong >= 0 /\ x.empty >= 0

SubjectsOk(subjects) ==
  \A i \in 1..Len(subjects) : CountersOk(subjects[i]) /\ subjects[i].target >= 1

RecordOk(r) == \A n \in DOMAIN r.subjects : CountersOk(r.subjects[n])

C9_CountersAndTargetsInRange ==
  /\ SubjectsOk(subjectProgress)
  /\ \A d \in dailyHistoryColl : RecordOk(d)
  /\ \A i \in 1..Len(dailyWrites) : RecordOk(dailyWrites[i])
  /\ \A d \in userProgressColl : SubjectsOk(d.subjects)
  /\ \A i \in 1..Len(progressWrites) : SubjectsOk(progressWrites[i].subjects)

C9_ClampedTargetStored ==
  /\ \E d \in userProgressColl : d.subjects[1].target = 1 /\ d.subjects[1].correct > 0
  /\ \E d \in dailyHistoryColl : d.total > 0
  /\ subjectProgress # <<>> /\ subjectProgress[1].target = 1

\* C10: the merge of a load keeps the catalog's subjects, order and targets, takes the
\* counters of the record entry of the same name, and zeroes the counters of a subject
\* with no entry or with no record; entries of other names add nothing.
C10_MergeByName ==
  fnMerge.done =>
    LET cat == fnMerge.catalog
        res == fnMerge.result
        rec == fnMerge.record
    IN  /\ Len(res) = Len(cat)
        /\ \A i \in 1..Len(cat) :
             /\ res[i].name = cat[i].name
             /\ res[i].target = cat[i].target
             /\ IF rec # <<>> /\ \E n \in DOMAIN rec[1].subjects : n = cat[i].name
                THEN /\ res[i].correct = rec[1].subjects[cat[i].name].correct
                     /\ res[i].wrong = rec[1].subjects[cat[i].name].wrong
                     /\ res[i].empty = rec[1].subjects[cat[i].name].empty
                ELSE res[i].correct = 0 /\ res[i].wrong = 0 /\ res[i].empty = 0

C10_MissingAndForeignEntries ==
  /\ fnMerge.done /\ fnMerge.record # <<>>
  /\ DOMAIN fnMerge.record[1].subjects = {"Matematik", "Eski Ders"}
  /\ fnMerge.catalog[1].correct = 1
  /\ fnMerge.result[1].correct = 0
  /\ fnMerge.result[2].correct = 2

\* C11: whenever the snapshot has subjects (so in every Ready state) the total target is
\* the sum of their targets; the catalog documents, from which a load takes it, carry
\* the sum of their own subjects' targets, and updateTarget recomputes the sum.
C11_TotalTargetIsSumOfTargets ==
  /\ (subjectProgress # <<>> =>
        totalTarget = SumSeq([i \in 1..Len(subjectProgress) |-> subjectProgress[i].target]))
  /\ \A d \in userProgressColl :
       d.totalTarget = SumSeq([i \in 1..Len(d.subjects) |-> d.subjects[i].target])
  /\ \A k \in 1..Len(progressWrites) :
       progressWrites[k].totalTarget =
         SumSeq([i \in 1..Len(progressWrites[k].subjects) |-> progressWrites[k].subjects[i].target])

C11_EditedTotalReloaded ==
  /\ ~dataLoading /\ loads = {} /\ nSwitch = 1 /\ loadedDate = selectedDate
  /\ nEdit = 1 /\ lastEdit.raw.n = 20
  /\ totalTarget = 70
  /\ \E d \in userProgressColl : d.totalTarget = 70
  /\ ~timer.pending /\ progressWrites = <<>>

\* C12: a call of updateTarget sets the subject's target to max(1, input), 1 for an
\* input that is not a number, 0 or negative; it changes no counter, no other subject's
\* target, and issues no Daily Record write.
C12_UpdateTargetClampsAndFrames ==
  [][nEdit' # nEdit =>
       LET i == lastEdit'.idx
           raw == lastEdit'.raw
       IN  /\ Len(subjectProgress') = Len(subjectProgress)
           /\ subjectProgress'[i].target = (IF raw.nan \/ raw.n < 1 THEN 1 ELSE raw.n)
           /\ \A k \in 1..Len(subjectProgress) :
                /\ subjectProgress'[k].name = subjectProgress[k].name
                /\ subjectProgress'[k].correct = subjectProgress[k].correct
                /\ subjectProgress'[k].wrong = subjectProgress[k].wrong
                /\ subjectProgress'[k].empty = subjectProgress[k].empty
                /\ (k # i => subjectProgress'[k].target = subjectProgress[k].target)
           /\ dailyWrites' = dailyWrites
           /\ dailyHistoryColl' = dailyHistoryColl
           /\ totalQuestions' = totalQuestions]_vars

C12_NegativeInputClamped ==
  /\ nEdit = 1 /\ lastEdit.idx = 1 /\ lastEdit.raw.n = -3
  /\ subjectProgress[1].target = 1
  /\ subjectProgress[1].correct = 1
  /\ subjectProgress[2].target = 15

\* C13: initializeUserProgress on a store that has the user's catalog writes nothing;
\* after two calls in a row the store holds one catalog of the user, the one the first
\* call left, and a catalog that existed before keeps its targets.
C13_InitializationIdempotent ==
  fnInit.done =>
    /\ fnInit.twice = fnInit.once
    /\ Cardinality({d \in fnInit.twice : d.id = UserId}) = 1
    /\ ((\E d \in fnInit.before : d.id = UserId) => fnInit.once = fnInit.before)
    /\ {d \in fnInit.twice : d.id # UserId} = {d \in fnInit.before : d.id # UserId}

C13_AdjustedCatalogKept ==
  /\ fnInit.done
  /\ \E d \in fnInit.before : d.id = UserId /\ d.subjects[1].target = 20
  /\ \E d \in fnInit.twice : d.id = UserId /\ d.subjects[1].target = 20 /\ d.totalTarget = 70

\* C14: the step that creates the user's catalog stores six subjects with targets
\* 10, 15, 8, 12, 10, 5, counters 0 and total target 60; the first merge of the session
\* gives a snapshot of these six subjects and total target 60; a load never writes to
\* a store that has the catalog.
C14_DefaultsOnlyWhenAbsent ==
  [][LET before == getUserProgress(userProgressColl, UserId)
         after == getUserProgress(userProgressColl', UserId)
         created == before = <<>> /\ after # <<>>
         defaultsStored ==
           /\ [i \in 1..Len(after[1].subjects) |-> after[1].subjects[i].target]
                = <<10, 15, 8, 12, 10, 5>>
           /\ \A i \in 1..Len(after[1].subjects) :
                /\ after[1].subjects[i].correct = 0
                /\ after[1].subjects[i].wrong = 0
                /\ after[1].subjects[i].empty = 0
           /\ after[1].totalTarget = 60
         firstMerge == loadedDate = 0 /\ loadedDate' # 0
         defaultsShown ==
           /\ [i \in 1..Len(subjectProgress') |-> subjectProgress'[i].target]
                = <<10, 15, 8, 12, 10, 5>>
           /\ totalTarget' = 60
         loadStepOnCatalog == before # <<>> /\ loads' # loads
     IN  /\ (created => defaultsStored)
         /\ (firstMerge => defaultsShown)
         /\ (loadStepOnCatalog => userProgressColl' = userProgressColl)]_vars

C14_AdjustedCatalogReloaded ==
  /\ ~dataLoading /\ loads = {} /\ nSwitch = 1 /\ loadedDate = selectedDate
  /\ nEdit = 1 /\ nMut = 0
  /\ \E d \in userProgressColl : d.subjects[1].target = 20
  /\ subjectProgress[1].target = 20
  /\ Len(subjectProgress) = 6
  /\ nFail = 1

\* C15 (as stated): the counters of every subject of every stored catalog are 0.
C15_StoredCatalogCountersZero ==
  \A d \in userProgressColl : \A i \in 1..Len(d.subjects) :
     d.subjects[i].correct = 0 /\ d.subjects[i].wrong = 0 /\ d.subjects[i].empty = 0

\* C15 (amended): saveProgress hands the snapshot to the catalog save as it is, counters
\* included, and the merge of a load never takes a counter from the catalog: after it a
\* subject's counters are those of the date's stored record, or 0.
C15_CatalogCountersSavedAndIgnored ==
  [][LET saved == Len(progressWrites') > Len(progressWrites)
         merging == {l \in loads : l.pc = "getDailyProgressForDate" /\ l \notin loads'}
         records == {d \in dailyHistoryColl :
                       d.userId = UserId /\ \E l \in merging : d.date = l.date}
     IN  /\ (saved => progressWrites'[Len(progressWrites')].subjects = subjectProgress)
         /\ (merging # {} =>
               \A i \in 1..Len(subjectProgress') :
                  LET s == subjectProgress'[i] IN
                  \/ s.correct = 0 /\ s.wrong = 0 /\ s.empty = 0
                  \/ \E d \in records :
                       /\ s.name \in DOMAIN d.subjects
                       /\ s.correct = d.subjects[s.name].correct
                       /\ s.wrong = d.subjects[s.name].wrong
                       /\ s.empty = d.subjects[s.name].empty)]_vars

C15_CatalogWithCountersMerged ==
  \E l \in loads :
     /\ l.pc = "getUserDailyHistory" /\ l.date = 2
     /\ l.userProgress # <<>>
     /\ l.userProgress[1].subjects[1].correct = 1
     /\ subjectProgress[1].correct = 0
     /\ loadedDate = 2

\* What the records of a history that are counted add to a field of a subject.
HistoryTotal(history, name, field, Counted(_)) ==
  SumSeq([i \in 1..Len(history) |->
            IF Counted(history[i]) /\ name \in DOMAIN history[i].subjects
            THEN history[i].subjects[name][field] ELSE 0])

SnapshotValue(subjects, name, field) ==
  LET s == CHOOSE x \in {subjects[i] : i \in 1..Len(subjects)} : x.name = name
  IN  IF field = "total" THEN s.correct + s.wrong + s.empty ELSE s[field]

StatFields == {"correct", "wrong", "empty", "total"}

\* C16: the selected date (the date of the snapshot) is counted once in
\* both rollups: a history record of that date adds nothing to the snapshot's counts.
C16_SelectedDateCountedOnce ==
  fnRoll.done =>
    \A n \in SubjectNames(fnRoll.subjects), f \in StatFields :
       /\ fnRoll.allTime[n][f] =
            SnapshotValue(fnRoll.subjects, n, f)
              + HistoryTotal(fnRoll.history, n, f, LAMBDA r : r.date # fnRoll.date)
       /\ fnRoll.weekly[n][f] =
            calculateWeeklyStats(fnRoll.subjects,
                                 SelectSeq(fnRoll.history, LAMBDA r : r.date # fnRoll.date),
                                 fnRoll.now, fnRoll.tzShift)[n][f]

\* C17: each subject's correct, wrong, empty and total in the all-time rollup are the
\* snapshot's plus the sum over all history records, a record without the subject
\* adding 0; with no history the rollup is the snapshot's own counts and totals.
C17_AllTimeRollupAdditive ==
  fnRoll.done =>
    \A n \in SubjectNames(fnRoll.subjects), f \in StatFields :
       /\ fnRoll.allTime[n][f] =
            SnapshotValue(fnRoll.subjects, n, f)
              + HistoryTotal(fnRoll.history, n, f, LAMBDA r : TRUE)
       /\ (fnRoll.history = <<>> =>
             fnRoll.allTime[n][f] = SnapshotValue(fnRoll.subjects, n, f))

C17_TwoRecordsOneWithoutSubject ==
  /\ fnRoll.done /\ Len(fnRoll.history) = 2
  /\ DOMAIN fnRoll.history[1].subjects = {"Turkce"}
  /\ DOMAIN fnRoll.history[2].subjects = {"Matematik", "Eski Ders"}
  /\ fnRoll.subjects[1].correct = 1 /\ fnRoll.subjects[2].correct = 1
  /\ fnRoll.allTime["Turkce"].correct = 3
  /\ fnRoll.allTime["Matematik"].total = 4

\* C18: the keys of the all-time and of the weekly rollup are the subject names of the
\* snapshot; a history entry under another name creates no key.
C18_RollupKeysAreSnapshotNames ==
  fnRoll.done =>
    /\ DOMAIN fnRoll.allTime = {fnRoll.subjects[i].name : i \in 1..Len(fnRoll.subjects)}
    /\ DOMAIN fnRoll.weekly = {fnRoll.subjects[i].name : i \in 1..Len(fnRoll.subjects)}

C18_ForeignNameInWeek ==
  /\ fnRoll.done /\ Len(fnRoll.history) >= 1
  /\ fnRoll.history[1].date = Today - 3
  /\ "Eski Ders" \in DOMAIN fnRoll.history[1].subjects
  /\ fnRoll.weekly["Matematik"].correct > fnRoll.subjects[2].correct
  /\ "Eski Ders" \notin DOMAIN fnRoll.weekly

\* C19: a history record is counted in the weekly rollup exactly when its date is
\* today - 7 days or later, at every time of day.
C19_WeekBoundaryInclusive ==
  fnRoll.done =>
    \A n \in SubjectNames(fnRoll.subjects), f \in StatFields :
       fnRoll.weekly[n][f] =
         SnapshotValue(fnRoll.subjects, n, f)
           + HistoryTotal(fnRoll.history, n, f, LAMBDA r : r.date >= Today - 7)

\* C20: records dated 8 or more days before today are never counted in the weekly
\* rollup and records dated 0 to 6 days before today always are (a record dated
\* exactly 7 days before today is left aside here).
C20_WeekWindowAwayFromBoundary ==
  (fnRoll.done /\ \A i \in 1..Len(fnRoll.history) : fnRoll.history[i].date # Today - 7) =>
    \A n \in SubjectNames(fnRoll.subjects), f \in StatFields :
       fnRoll.weekly[n][f] =
         SnapshotValue(fnRoll.subjects, n, f)
           + HistoryTotal(fnRoll.history, n, f, LAMBDA r : r.date >= Today - 6)

\* C21: the percentage of a subject is min(100, 100 * (correct + wrong + empty) / target),
\* and it is 0 for a subject whose target is 0.
C21_PercentageGuardsZeroTarget ==
  fnPct.done =>
    LET s == fnPct.subject
        solved == s.correct + s.wrong + s.empty
    IN  /\ fnPct.value.kind = "number"
        /\ IF s.target = 0
           THEN fnPct.value.num = 0
           ELSE IF solved >= s.target
                THEN fnPct.value.num = 100 * fnPct.value.den
                ELSE fnPct.value.num * s.target = 100 * solved * fnPct.value.den

\* C22: totalQuestions is the sum of the snapshot's counters in every state, so the
\* overall percentage is 100 * that sum / totalTarget, and 0 when totalTarget is 0.
C22_OverallPercentageOfSnapshot ==
  LET solved == SumSeq([i \in 1..Len(subjectProgress) |->
                          subjectProgress[i].correct + subjectProgress[i].wrong
                            + subjectProgress[i].empty])
  IN  /\ totalQuestions = solved
      /\ overallProgress.kind = "number"
      /\ IF totalTarget = 0
         THEN overallProgress.num = 0
         ELSE overallProgress.num * totalTarget = 100 * solved * overallProgress.den

C22_TotalsAfterLoadMutationsAndEdit ==
  /\ ~dataLoading /\ loads = {} /\ currentUser # NoUser
  /\ nSwitch = 1 /\ nMut = 2 /\ nEdit = 1
  /\ loadedDate = 2 /\ selectedDate = 2
  /\ totalQuestions = 2 /\ totalTarget = 70
  /\ overallProgress = Number(200, 70)

\* C23: in a step that ends with no user signed in no store operation is started: no
\* load is in flight, no Daily Record write and no catalog save is issued, and the
\* stores change only by a write that was already in flight.
C23_NoStoreOperationWithoutUser ==
  [][currentUser' = NoUser =>
       /\ loads' = {}
       /\ Len(dailyWrites') <= Len(dailyWrites)
       /\ Len(progressWrites') <= Len(progressWrites)
       /\ (dailyHistoryColl' # dailyHistoryColl => Len(dailyWrites') < Len(dailyWrites))
       /\ (userProgressColl' # userProgressColl => Len(progressWrites') < Len(progressWrites))]_vars

C23_TimerFiredAfterLogout ==
  /\ currentUser = NoUser /\ ~authLoading /\ ~dataLoading
  /\ timer.user = NoUser /\ ~timer.pending
  /\ subjectProgress # <<>> /\ nMut = 1
  /\ progressWrites = <<>> /\ userProgressColl # {}
  /\ \A d \in userProgressColl : d.subjects[1].correct = 0 /\ d.subjects[1].wrong = 0
                                   /\ d.subjects[1].empty = 0

\* C24: a Daily Record write or a catalog save that fails changes neither the snapshot
\* nor the total target nor the totals, the page stays out of loading, and a mutation
\* made after a failure issues a write carrying the counters of every subject.
C24_WriteFailureKeepsState ==
  [][LET writeFailed ==
           /\ nFail' # nFail
           /\ \/ Len(dailyWrites') < Len(dailyWrites)
              \/ Len(progressWrites') < Len(progressWrites)
         mutatedAfterFailure == nMut' # nMut /\ nFail > 0
         w == dailyWrites'[Len(dailyWrites')]
     IN  /\ (writeFailed =>
               /\ subjectProgress' = subjectProgress
               /\ totalTarget' = totalTarget
               /\ totalQuestions' = totalQuestions
               /\ selectedDate' = selectedDate
               /\ dataLoading' = dataLoading /\ loads' = loads)
         /\ (mutatedAfterFailure =>
               /\ Len(dailyWrites') = Len(dailyWrites) + 1
               /\ w.date = selectedDate
               /\ DOMAIN w.subjects = {subjectProgress'[i].name : i \in 1..Len(subjectProgress')}
               /\ \A i \in 1..Len(subjectProgress') :
                    /\ w.subjects[subjectProgress'[i].name].correct = subjectProgress'[i].correct
                    /\ w.subjects[subjectProgress'[i].name].wrong = subjectProgress'[i].wrong
                    /\ w.subjects[subjectProgress'[i].name].empty = subjectProgress'[i].empty)]_vars

C24_WriteReissuedAfterFailure ==
  /\ nFail = 1 /\ nMut = 2 /\ nSwitch = 0 /\ nEdit = 0
  /\ dailyHistoryColl = {}
  /\ Len(dailyWrites) = 1 /\ dailyWrites[1].total = 2
  /\ ~dataLoading /\ loads = {} /\ loadedDate = selectedDate

\* C25: a failed read of a stored Daily Record is told apart from "no record" and a
\* failed query of a stored history from an empty history: the load that meets the
\* failure does not go on as it does for NotFound (all counters 0) or for an empty
\* sequence.
C25_ReadFailureDistinctFromAbsent ==
  [][\A l \in loads :
       LET recordReadFailed ==
             /\ l.pc = "getDailyProgressForDate" /\ l \notin loads' /\ nFail' # nFail
             /\ \E d \in dailyHistoryColl : d.userId = UserId /\ d.date = l.date
           historyReadFailed ==
             /\ l.pc = "getUserDailyHistory" /\ l \notin loads' /\ nFail' # nFail
             /\ \E d \in dailyHistoryColl : d.userId = UserId
       IN  /\ (recordReadFailed =>
                 ~(/\ loadedDate' = l.date
                   /\ \A i \in 1..Len(subjectProgress') :
                        /\ subjectProgress'[i].correct = 0
                        /\ subjectProgress'[i].wrong = 0
                        /\ subjectProgress'[i].empty = 0))
           /\ (historyReadFailed => ~(dailyHistory' = <<>> /\ ~dataLoading'))]_vars

\* C26: a load in flight leads to a state with no load in flight and the loading flag
\* cleared, whichever of its adapter calls succeed or fail.
C26_EveryLoadTerminates ==
  (loads # {}) ~> (loads = {} /\ ~dataLoading)

C26_FailedLoadCleared ==
  /\ ~authLoading /\ loads = {} /\ ~dataLoading
  /\ nFail = 1 /\ loadedDate = 0 /\ nSwitch = 0
  /\ subjectProgress = <<>>

\* C27: whenever the page is out of loading on the date it loaded, with no write in
\* flight and no failure, the snapshot's counters are those of the stored Daily Record
\* of the date (0 if there is none).  Stated for behaviours with a single mutation, in
\* which no two writes exist that the store could apply out of order.
C27_ReadYourWrites ==
  (/\ ~dataLoading /\ loads = {} /\ loadedDate = selectedDate
   /\ dailyWrites = <<>> /\ nFail = 0 /\ nMut <= 1) =>
    \A i \in 1..Len(subjectProgress) :
       LET s == subjectProgress[i]
           stored == {d \in dailyHistoryColl : d.userId = UserId /\ d.date = selectedDate}
       IN  IF \E d \in stored : s.name \in DOMAIN d.subjects
           THEN \A d \in stored :
                  /\ s.correct = d.subjects[s.name].correct
                  /\ s.wrong = d.subjects[s.name].wrong
                  /\ s.empty = d.subjects[s.name].empty
           ELSE s.correct = 0 /\ s.wrong = 0 /\ s.empty = 0

\* C28: a Daily Record write is issued under the date the snapshot was loaded for.
C28_WriteKeyedByLoadedDate ==
  [][Len(dailyWrites') > Len(dailyWrites) =>
       dailyWrites'[Len(dailyWrites')].date = loadedDate]_vars

\* C29: when the selected date is more than 7 days before today, the weekly rollup holds
\* nothing but counts of history records dated today - 7 days or later.
C29_WeeklyOnlyTrailingWeek ==
  (fnRoll.done /\ fnRoll.date < Today - 7) =>
    \A n \in SubjectNames(fnRoll.subjects), f \in StatFields :
       fnRoll.weekly[n][f] <=
         HistoryTotal(fnRoll.history, n, f, LAMBDA r : r.date >= Today - 7)

\* C30: there is one timer; a mutation or a target update issues no catalog save and
\* leaves a freshly started window pending; a window started by such a change that
\* elapses out of loading issues exactly one saveUserProgress, with the snapshot and
\* the total target as they are then.
C30_OneSavePerWindow ==
  [][LET changed == nMut' # nMut \/ nEdit' # nEdit
         elapsed == timer.pending /\ ~timer'.pending
     IN  /\ (changed =>
               /\ progressWrites' = progressWrites
               /\ timer'.pending /\ ~timer'.dataLoading /\ timer'.user = currentUser)
         /\ ((elapsed /\ ~timer.dataLoading /\ ~dataLoading /\ timer.user # NoUser) =>
               /\ Len(progressWrites') = Len(progressWrites) + 1
               /\ progressWrites'[Len(progressWrites')].subjects = subjectProgress
               /\ progressWrites'[Len(progressWrites')].totalTarget = totalTarget)]_vars

C30_ThreeChangesOneSave ==
  /\ nMut = 2 /\ nEdit = 1 /\ nFail = 0 /\ nSwitch = 0
  /\ ~timer.pending /\ ~dataLoading
  /\ Len(progressWrites) = 1
  /\ progressWrites[1].subjects = subjectProgress
  /\ progressWrites[1].totalTarget = totalTarget
  /\ \A d \in userProgressColl :
       d.totalTarget = 60 /\ \A i \in 1..Len(d.subjects) : d.subjects[i].correct = 0
                                  /\ d.subjects[i].wrong = 0 /\ d.subjects[i].empty = 0

\* C31: once the timers and the operations in flight have drained, with the user signed
\* in and no call failed, the stored catalog holds for the subject of the latest
\* updateTarget the target that call set.
C31_TargetUpdatePersisted ==
  (/\ nEdit > 0 /\ nFail = 0 /\ currentUser # NoUser
   /\ ~timer.pending /\ loads = {} /\ ~dataLoading
   /\ progressWrites = <<>> /\ dailyWrites = <<>>) =>
    /\ \E d \in userProgressColl : d.id = UserId
    /\ \A d \in userProgressColl :
         d.id = UserId =>
           d.subjects[lastEdit.idx].target = Max(1, parseTarget(lastEdit.raw))

\* C32: when the fetch of a stored Daily Record that holds counts fails, the load does
\* not go on with the counters of "no record": the snapshot is not set to all zeros.
C32_FailedFetchNotZeroed ==
  [][\A l \in loads :
       (/\ l.pc = "getDailyProgressForDate" /\ l \notin loads' /\ nFail' = nFail + 1
        /\ \E d \in dailyHistoryColl : d.userId = UserId /\ d.date = l.date /\ d.total > 0) =>
         SumQuestions(subjectProgress') > 0]_vars

\* C33: the default-catalog write of an initialization is applied only while no catalog
\* document of the user exists, so it never replaces targets the user has set.
C33_InitWriteOnlyWhenAbsent ==
  [][\A s \in 1..MaxSessions :
       (sessions[s].pc = "initializeWrite" /\ sessions'[s].pc # "initializeWrite") =>
         getUserProgress(userProgressColl, UserId) = <<>>]_vars

\* C34: at most one loadUserDataForDate execution is in flight; while the loading flag is
\* set no date change, mutation or target update happens; the flag is set while a load is
\* in flight and is cleared only by a step that leaves no load in flight.
C34_AtMostOneLoad ==
  [][/\ Cardinality(loads') <= 1
     /\ (loads' # {} => dataLoading')
     /\ (dataLoading => nSwitch' = nSwitch /\ nMut' = nMut /\ nEdit' = nEdit)
     /\ ((dataLoading /\ ~dataLoading') => loads' = {})]_vars

C34_SecondSwitchLoading ==
  /\ Cardinality(loads) = 1 /\ dataLoading
  /\ nSwitch = 2 /\ nMut = 1 /\ nFail = 1
  /\ \E l \in loads : l.date = selectedDate /\ l.pc = "getUserDailyHistory"

\* C35: a load issues no Daily Record write and no saveUserProgress, and changes the
\* stores only by writing the default catalog where the user has none; the timer armed
\* by the state change of a load expires without writing.
C35_LoadWritesNothing ==
  [][LET loadStep == \E l \in loads : l \notin loads'
         loadTimerExpires == timer.pending /\ ~timer'.pending /\ timer.dataLoading
         frame == /\ dailyWrites' = dailyWrites
                  /\ progressWrites' = progressWrites
                  /\ dailyHistoryColl' = dailyHistoryColl
     IN  /\ (loadStep =>
               /\ frame
               /\ (userProgressColl' # userProgressColl =>
                     /\ userProgressColl = {}
                     /\ userProgressColl' = {[id |-> UserId, subjects |-> defaultSubjects,
                                              totalTarget |-> 60]}))
         /\ (loadTimerExpires => frame /\ userProgressColl' = userProgressColl
                                       /\ saveLoading' = saveLoading)]_vars

C35_LoadTimerExpired ==
  /\ ~timer.pending /\ timer.dataLoading /\ timer.user = UserId
  /\ ~dataLoading /\ loads = {} /\ loadedDate = 2 /\ nSwitch = 1
  /\ nMut = 1 /\ nEdit = 0 /\ nFail = 0
  /\ progressWrites = <<>> /\ dailyWrites = <<>>
  /\ \E d \in dailyHistoryColl : d.date = 1 /\ d.total = 1
  /\ SumQuestions(subjectProgress) = 0

\* C36: saveLoading is true exactly while a saveUserProgress of saveProgress is
\* outstanding, also when a second save starts before the first has completed.
C36_SaveLoadingTracksSaves ==
  saveLoading <=> progressWrites # <<>>

\* C37: with the user registered and signed in, no load and no catalog save in flight and
\* no call failed, the settings record and the progress record of the user hold the same
\* subjects in the same order, the same target for each and the same total target.
C37_SettingsMatchProgress ==
  (/\ ~authLoading /\ nFail = 0 /\ loads = {} /\ progressWrites = <<>>) =>
    LET p == getUserProgress(userProgressColl, UserId)
        q == getUserSettings(userSettingsColl, UserId)
    IN  /\ p # <<>> /\ q # <<>>
        /\ Len(p[1].subjects) = Len(q[1].subjects)
        /\ \A i \in 1..Len(p[1].subjects) :
             /\ p[1].subjects[i].name = q[1].subjects[i].name
             /\ p[1].subjects[i].target = q[1].subjects[i].target
        /\ p[1].totalTarget = q[1].totalTarget

\* C38: in every Daily Record a mutation writes, on its way or stored, each subject
\* entry's total is its correct + wrong + empty and the record's total is the sum of the
\* entries' totals; and every entry of the all-time and of the weekly rollup of the page
\* has total = correct + wrong + empty.
EntryConsistent(e) == e.total = e.correct + e.wrong + e.empty

RECURSIVE SumTotals(_, _)
SumTotals(entries, names) ==
  IF names = {} THEN 0
  ELSE LET n == CHOOSE x \in names : TRUE
       IN  entries[n].total + SumTotals(entries, names \ {n})

RecordConsistent(r) ==
  /\ \A n \in DOMAIN r.subjects : EntryConsistent(r.subjects[n])
  /\ r.total = SumTotals(r.subjects, DOMAIN r.subjects)

C38_RecordsAndRollupsConsistent ==
  LET allTime == calculateAllTimeStats(subjectProgress, dailyHistory)
      weekly == calculateWeeklyStats(subjectProgress, dailyHistory, DateTime(Today), 0)
  IN  /\ \A i \in 1..Len(dailyWrites) : RecordConsistent(dailyWrites[i])
      /\ \A d \in dailyHistoryColl : RecordConsistent(d)
      /\ \A n \in DOMAIN allTime : EntryConsistent(allTime[n])
      /\ \A n \in DOMAIN weekly : EntryConsistent(weekly[n])

C38_RollupOverStoredRecord ==
  /\ ~dataLoading /\ loads = {} /\ nSwitch = 2 /\ nMut = 2
  /\ Len(dailyHistory) = 1 /\ dailyHistory[1].total = 1
  /\ subjectProgress[1].correct + subjectProgress[1].wrong = 2
  /\ Len(dailyWrites) = 1 /\ dailyWrites[1].total = 2
  /\ calculateAllTimeStats(subjectProgress, dailyHistory)["Turkce"].total = 3

====
